---- MODULE Spec2Model ----
(***************************************************************************)
(* Callback and task dispatch core of DearPyGui (mvCallbackRegistry.h):    *)
(*   - mvQueue<T>: the two-lock linked queue, modelled statement by        *)
(*     statement with its two mutexes and its condition variable           *)
(*     (specification SpecQueue);                                          *)
(*   - mvCallbackRegistry / mvSubmitTask / mvSubmitCallback and the        *)
(*     reference counting of mvCallbackWrapper (Spec and SpecRef).         *)
(*   - the frame callback table and frame_callback (SpecFrame).           *)
(***************************************************************************)
EXTENDS Integers, Sequences, FiniteSets, TLC

\* ------------------------------------------------------------------ bounds
\* Total number of push calls made on the one mvQueue instance of SpecQueue.
MaxPush == 2

\* const i32 maxNumberOfCalls: the admission ceiling K.  The source sets 50;
\* the properties below are stated for any K and are checked for a small K.
maxNumberOfCalls == 2

\* Total number of mvSubmitTask and mvSubmitCallback calls made in Spec:
\* enough for a drain, maxNumberOfCalls + 1 admissions and a refusal.
MaxReq == 4

\* Total number of run / run_blocking calls made on the handles of SpecRef.
MaxRun == 1

\* Largest frame number a callback is scheduled at in SpecFrame.
MaxFrame == 2

\* Total number of "run at frame n" requests made in SpecFrame.
MaxSched == 2

\* Total number of frame_callback calls made in SpecFrame.
MaxFire == 3

\* nullptr / empty shared_ptr / empty unique_ptr.
Nil == 0

\* Threads using the queue: t1 only pushes, t3 only pops or tests for
\* emptiness, t2 may call any operation (so there are up to two concurrent
\* producers and up to two concurrent consumers).
Threads == {"t1", "t2", "t3"}
Producers == {"t1", "t2"}
Consumers == {"t2", "t3"}
NoThread == "none"

\* Heap nodes: node 1 is the dummy allocated by the constructor, every push
\* allocates one more.
NodeIds == 1..(MaxPush + 1)
\* Values pushed: the k-th push call carries value k.
Values == 1..MaxPush

VARIABLES
    \* ---- mvQueue
    node,           \* heap: node id -> [data, next]
    live,           \* node ids currently allocated (not yet destroyed)
    m_head,         \* std::unique_ptr<node> m_head
    m_tail,         \* node* m_tail
    m_head_mutex,   \* owner of m_head_mutex, or NoThread
    m_tail_mutex,   \* owner of m_tail_mutex, or NoThread
    pc,             \* per thread: the statement it is at
    op,             \* per thread: the operation it is in and its overload
    loc,            \* per thread: locals (value, p, tail read, old_head)
    ret,            \* per thread: result of its last completed operation
    npush,          \* number of push calls begun so far
    pushed,         \* history: values in the order their push stored them
    popped,         \* history: values in the order pop_head removed them
    runs            \* history: per value, how often the unit was invoked

VARIABLES
    \* ---- mvCallbackRegistry, GContext
    started,        \* GContext->started
    tasks,          \* mvQueue<mvFunctionWrapper> tasks: units, oldest first
    calls,          \* mvQueue<mvFunctionWrapper> calls: units, oldest first
    callCount,      \* std::atomic<i32> callCount
    rpc,            \* per producer thread: the statement it is at
    runit,          \* per producer thread: the unit it is submitting
    dpc,            \* the consumer (host loop) thread: the statement it is at
    \* ---- mvCallbackWrapper handles and the PyObject reference counts
    hstate,         \* per handle: "none" (not constructed), "alive", "moved"
                    \* (alive, moved from), "dead" (destroyed)
    hcb,            \* per handle: PyObject* callback
    hud,            \* per handle: PyObject* userData
    rc,             \* per PyObject: its reference count (ob_refcnt)
    ext,            \* per PyObject: references owned by code outside the core
    \* ---- histories
    nreq,           \* number of requests (submit / run calls) made so far
    execs,          \* per request: how often its closure was invoked
    chan,           \* per request: where its closure went
    nacc,           \* submissions counted into callCount since the last reset
    nrej,           \* submissions refused since the last reset
    overwritten,    \* per PyObject: references overwritten by operator=
    dropped         \* per PyObject: references held by refused closures

VARIABLES
    \* ---- histories of the drain entry points
    dstart,         \* ids of the units in the channel when the drain call
                    \* in progress began (empty when none is in progress)
    ddone,          \* ids of the units the drain call in progress has run
    wasReset        \* run_callbacks has reset callCount at least once

VARIABLES
    \* ---- frame callbacks
    highestFrame,            \* i32 highestFrame
    frameCallbacks,          \* frame -> PyObject* callback (null: no entry)
    frameCallbacksUserData,  \* frame -> PyObject* user data
    frameSched,              \* history: per frame, schedulings so far
    frameCalls,              \* history: per frame, frame_callback calls
    frameFired               \* history: per frame, invocations so far

qvars == <<node, live, m_head, m_tail, m_head_mutex, m_tail_mutex,
           pc, op, loc, ret, npush, pushed, popped, runs>>

dvars == <<dstart, ddone, wasReset>>

fvars == <<highestFrame, frameCallbacks, frameCallbacksUserData,
           frameSched, frameCalls, frameFired>>

rvars == <<started, tasks, calls, callCount, rpc, runit, dpc,
           hstate, hcb, hud, rc, ext,
           nreq, execs, chan, nacc, nrej, overwritten, dropped,
           dstart, ddone, wasReset,
           highestFrame, frameCallbacks, frameCallbacksUserData,
           frameSched, frameCalls, frameFired>>

vars == <<node, live, m_head, m_tail, m_head_mutex, m_tail_mutex,
          pc, op, loc, ret, npush, pushed, popped, runs,
          started, tasks, calls, callCount, rpc, runit, dpc,
          hstate, hcb, hud, rc, ext,
          nreq, execs, chan, nacc, nrej, overwritten, dropped,
          dstart, ddone, wasReset,
          highestFrame, frameCallbacks, frameCallbacksUserData,
          frameSched, frameCalls, frameFired>>

\* ------------------------------------------------------------------ mvQueue
EmptyNode == [data |-> Nil, next |-> Nil]
NoLoc == [v |-> Nil, p |-> Nil, tail |-> Nil, old |-> Nil]
NoOp == [kind |-> "none", form |-> "none"]
NoRet == [kind |-> "none", ok |-> FALSE, val |-> Nil]

\* The overloads: "ptr" returns std::shared_ptr<T>, "ref" fills a T&.
Forms == {"ptr", "ref"}

\* ---- push(T value)

\* new_data = make_shared<T>(value); p = make_unique<node>()
PushBegin(t) ==
    /\ t \in Producers
    /\ pc[t] = "idle"
    /\ npush < MaxPush
    /\ npush' = npush + 1
    /\ live' = live \cup {npush + 2}
    /\ node' = [node EXCEPT ![npush + 2] = EmptyNode]
    /\ op' = [op EXCEPT ![t] = [kind |-> "push", form |-> "none"]]
    /\ loc' = [loc EXCEPT ![t] = [NoLoc EXCEPT !.v = npush + 1, !.p = npush + 2]]
    /\ pc' = [pc EXCEPT ![t] = "push_lock"]
    /\ UNCHANGED <<m_head, m_tail, m_head_mutex, m_tail_mutex, ret, pushed, popped, runs>>
    /\ UNCHANGED rvars

\* std::lock_guard<std::mutex> tail_lock(m_tail_mutex)
PushLock(t) ==
    /\ pc[t] = "push_lock"
    /\ m_tail_mutex = NoThread
    /\ m_tail_mutex' = t
    /\ pc' = [pc EXCEPT ![t] = "push_data"]
    /\ UNCHANGED <<node, live, m_head, m_tail, m_head_mutex, op, loc, ret,
                   npush, pushed, popped, runs>>
    /\ UNCHANGED rvars

\* Slip: the value is stored in the new node instead of the current dummy.
StoreNode_NewNode(t) == loc[t].p

\* The node push stores the value in: m_tail->data
StoreNode(t) == m_tail

\* m_tail->data = std::move(new_data)
PushData(t) ==
    /\ pc[t] = "push_data"
    /\ node' = [node EXCEPT ![StoreNode(t)].data = loc[t].v]
    /\ pushed' = Append(pushed, loc[t].v)
    /\ pc' = [pc EXCEPT ![t] = "push_next"]
    /\ UNCHANGED <<live, m_head, m_tail, m_head_mutex, m_tail_mutex, op, loc,
                   ret, npush, popped, runs>>
    /\ UNCHANGED rvars

\* Slip: the new node is not linked behind the old dummy.
PushNext_Unlinked(t) ==
    /\ pc[t] = "push_next"
    /\ pc' = [pc EXCEPT ![t] = "push_tail"]
    /\ UNCHANGED <<node, live, m_head, m_tail, m_head_mutex, m_tail_mutex, op,
                   loc, ret, npush, pushed, popped, runs>>
    /\ UNCHANGED rvars

\* new_tail = p.get(); m_tail->next = std::move(p)
PushNext(t) ==
    /\ pc[t] = "push_next"
    /\ node' = [node EXCEPT ![m_tail].next = loc[t].p]
    /\ pc' = [pc EXCEPT ![t] = "push_tail"]
    /\ UNCHANGED <<live, m_head, m_tail, m_head_mutex, m_tail_mutex, op, loc,
                   ret, npush, pushed, popped, runs>>
    /\ UNCHANGED rvars

\* m_tail = new_tail
PushTail(t) ==
    /\ pc[t] = "push_tail"
    /\ m_tail' = loc[t].p
    /\ pc' = [pc EXCEPT ![t] = "push_unlock"]
    /\ UNCHANGED <<node, live, m_head, m_head_mutex, m_tail_mutex, op, loc,
                   ret, npush, pushed, popped, runs>>
    /\ UNCHANGED rvars

\* end of the scope: ~lock_guard releases m_tail_mutex
PushUnlock(t) ==
    /\ pc[t] = "push_unlock"
    /\ m_tail_mutex' = NoThread
    /\ pc' = [pc EXCEPT ![t] = "push_notify"]
    /\ UNCHANGED <<node, live, m_head, m_tail, m_head_mutex, op, loc, ret,
                   npush, pushed, popped, runs>>
    /\ UNCHANGED rvars

\* Threads blocked inside m_data_cond.wait
Waiters == {w \in Threads : pc[w] = "cv_wait"}

\* The threads m_data_cond.notify_one() wakes: one of the threads blocked in
\* wait at that moment, none when no thread is blocked.
NotifyOne(w) == w \in Waiters

\* m_data_cond.notify_one(); return
PushNotify(t) ==
    /\ pc[t] = "push_notify"
    /\ \/ /\ Waiters = {}
          /\ pc' = [pc EXCEPT ![t] = "done"]
       \/ \E w \in Threads :
            /\ NotifyOne(w)
            /\ pc' = [pc EXCEPT ![t] = "done", ![w] = "cv_relock"]
    /\ loc' = [loc EXCEPT ![t] = NoLoc]
    /\ ret' = [ret EXCEPT ![t] = [kind |-> "void", ok |-> TRUE, val |-> Nil]]
    /\ UNCHANGED <<op, node, live, m_head, m_tail, m_head_mutex, m_tail_mutex,
                   npush, pushed, popped, runs>>
    /\ UNCHANGED rvars

\* ---- try_pop / wait_and_pop / empty: the operations that take m_head_mutex

HeadOps == {"try_pop", "wait_and_pop", "empty"}

\* A thread enters try_pop(), try_pop(T&), wait_and_pop(), wait_and_pop(T&)
\* or empty().
CallBegin(t, kind, form) ==
    /\ t \in Consumers
    /\ pc[t] = "idle"
    /\ op' = [op EXCEPT ![t] = [kind |-> kind, form |-> form]]
    /\ loc' = [loc EXCEPT ![t] = NoLoc]
    /\ pc' = [pc EXCEPT ![t] = "lock_head"]
    /\ UNCHANGED <<node, live, m_head, m_tail, m_head_mutex, m_tail_mutex,
                   ret, npush, pushed, popped, runs>>
    /\ UNCHANGED rvars

\* std::lock_guard / std::unique_lock on m_head_mutex (try_pop_head, empty,
\* wait_for_data), and the re-acquisition when m_data_cond.wait wakes up.
LockHead(t) ==
    /\ pc[t] \in {"lock_head", "cv_relock"}
    /\ m_head_mutex = NoThread
    /\ m_head_mutex' = t
    /\ pc' = [pc EXCEPT ![t] = "gt_lock"]
    /\ UNCHANGED <<node, live, m_head, m_tail, m_tail_mutex, op, loc, ret,
                   npush, pushed, popped, runs>>
    /\ UNCHANGED rvars

\* get_tail(): std::lock_guard<std::mutex> tail_lock(m_tail_mutex)
GetTailLock(t) ==
    /\ pc[t] = "gt_lock"
    /\ m_tail_mutex = NoThread
    /\ m_tail_mutex' = t
    /\ pc' = [pc EXCEPT ![t] = "gt_read"]
    /\ UNCHANGED <<node, live, m_head, m_tail, m_head_mutex, op, loc, ret,
                   npush, pushed, popped, runs>>
    /\ UNCHANGED rvars

\* Slip: get_tail returns with m_tail_mutex still locked.
GetTailRead_KeepsLock(t) ==
    /\ pc[t] = "gt_read"
    /\ loc' = [loc EXCEPT ![t].tail = m_tail]
    /\ pc' = [pc EXCEPT ![t] = "cmp"]
    /\ UNCHANGED <<node, live, m_head, m_tail, m_head_mutex, m_tail_mutex, op,
                   ret, npush, pushed, popped, runs>>
    /\ UNCHANGED rvars

\* get_tail(): return m_tail (and ~lock_guard releases m_tail_mutex)
GetTailRead(t) ==
    /\ pc[t] = "gt_read"
    /\ loc' = [loc EXCEPT ![t].tail = m_tail]
    /\ m_tail_mutex' = NoThread
    /\ pc' = [pc EXCEPT ![t] = "cmp"]
    /\ UNCHANGED <<node, live, m_head, m_tail, m_head_mutex, op, ret,
                   npush, pushed, popped, runs>>
    /\ UNCHANGED rvars

\* Slip: the emptiness test is left out, the queue never looks empty.
HeadIsTail_Never(t) == FALSE

\* m_head.get() == get_tail(), with get_tail()'s result in loc[t].tail
HeadIsTail(t) == m_head = loc[t].tail

\* empty(): return (m_head.get() == get_tail())
EmptyReturn(t) ==
    /\ pc[t] = "cmp"
    /\ op[t].kind = "empty"
    /\ ret' = [ret EXCEPT ![t] = [kind |-> "bool", ok |-> HeadIsTail(t), val |-> Nil]]
    /\ m_head_mutex' = NoThread
    /\ pc' = [pc EXCEPT ![t] = "done"]
    /\ loc' = [loc EXCEPT ![t] = NoLoc]
    /\ UNCHANGED <<op, node, live, m_head, m_tail, m_tail_mutex,
                   npush, pushed, popped, runs>>
    /\ UNCHANGED rvars

\* try_pop_head: if (m_head.get() == get_tail()) return unique_ptr<node>();
\* try_pop() then returns shared_ptr<T>(), try_pop(T&) returns false.
TryPopEmpty(t) ==
    /\ pc[t] = "cmp"
    /\ op[t].kind = "try_pop"
    /\ HeadIsTail(t)
    /\ ret' = [ret EXCEPT ![t] =
                 [kind |-> IF op[t].form = "ptr" THEN "shared_ptr" ELSE "bool",
                  ok |-> FALSE, val |-> Nil]]
    /\ m_head_mutex' = NoThread
    /\ pc' = [pc EXCEPT ![t] = "done"]
    /\ loc' = [loc EXCEPT ![t] = NoLoc]
    /\ UNCHANGED <<op, node, live, m_head, m_tail, m_tail_mutex,
                   npush, pushed, popped, runs>>
    /\ UNCHANGED rvars

\* try_pop_head, wait_for_data: the queue is seen non-empty, go on to pop_head
\* with m_head_mutex held.
SeenNonEmpty(t) ==
    /\ pc[t] = "cmp"
    /\ op[t].kind \in {"try_pop", "wait_and_pop"}
    /\ ~HeadIsTail(t)
    /\ pc' = [pc EXCEPT ![t] = "pop_head"]
    /\ UNCHANGED <<node, live, m_head, m_tail, m_head_mutex, m_tail_mutex,
                   op, loc, ret, npush, pushed, popped, runs>>
    /\ UNCHANGED rvars

\* m_data_cond.wait(head_lock, pred): pred is false, so wait releases
\* m_head_mutex and blocks the thread.
WaitBlock(t) ==
    /\ pc[t] = "cmp"
    /\ op[t].kind = "wait_and_pop"
    /\ HeadIsTail(t)
    /\ m_head_mutex' = NoThread
    /\ pc' = [pc EXCEPT ![t] = "cv_wait"]
    /\ UNCHANGED <<node, live, m_head, m_tail, m_tail_mutex,
                   op, loc, ret, npush, pushed, popped, runs>>
    /\ UNCHANGED rvars

\* std::condition_variable::wait may return without a notification.
SpuriousWake(t) ==
    /\ pc[t] = "cv_wait"
    /\ pc' = [pc EXCEPT ![t] = "cv_relock"]
    /\ UNCHANGED <<node, live, m_head, m_tail, m_head_mutex, m_tail_mutex,
                   op, loc, ret, npush, pushed, popped, runs>>
    /\ UNCHANGED rvars

\* Slip: pop_head hands out the head node but leaves m_head on it.
NewHead_Stays(h) == h

\* pop_head(): old_head = std::move(m_head); m_head = std::move(old_head->next)
NewHead(h) == node[h].next

\* (the T& overloads first do value = std::move(*m_head->data)), then
\* pop_head().
PopHead(t) ==
    /\ pc[t] = "pop_head"
    /\ loc' = [loc EXCEPT ![t].old = m_head,
                          ![t].v = IF op[t].form = "ref" THEN node[m_head].data ELSE Nil]
    /\ m_head' = NewHead(m_head)
    /\ node' = [node EXCEPT ![m_head].next = Nil]
    /\ popped' = Append(popped, node[m_head].data)
    /\ pc' = [pc EXCEPT ![t] = "ret"]
    /\ UNCHANGED <<live, m_tail, m_head_mutex, m_tail_mutex, op, ret,
                   npush, pushed, runs>>
    /\ UNCHANGED rvars

\* The value a completed pop hands to its caller: old_head->data for the
\* shared_ptr overloads, the T& argument for the others.
PopResult(t) ==
    IF op[t].form = "ptr"
    THEN [kind |-> "shared_ptr", ok |-> TRUE, val |-> node[loc[t].old].data]
    ELSE [kind |-> IF op[t].kind = "try_pop" THEN "bool" ELSE "void",
          ok |-> TRUE, val |-> loc[t].v]

\* return old_head: the head lock is released, the result is handed out and
\* old_head (a unique_ptr<node> const local) destroys the node.
PopReturn(t) ==
    /\ pc[t] = "ret"
    /\ m_head_mutex' = NoThread
    /\ ret' = [ret EXCEPT ![t] = PopResult(t)]
    /\ live' = live \ {loc[t].old}
    /\ node' = [node EXCEPT ![loc[t].old] = EmptyNode]
    /\ pc' = [pc EXCEPT ![t] = "done"]
    /\ loc' = [loc EXCEPT ![t] = NoLoc]
    /\ UNCHANGED <<op, m_head, m_tail, m_tail_mutex, npush, pushed, popped, runs>>
    /\ UNCHANGED rvars

\* mvFunctionWrapper::operator(): m_impl->call() runs the closure once.
Invoke(r, v) == [r EXCEPT ![v] = @ + 1]

\* The caller takes the result of its call.  A caller that popped a unit
\* invokes it (pop-and-invoke, as the drain entry points do) and is then ready
\* for its next call.
Return(t) ==
    /\ pc[t] = "done"
    /\ pc' = [pc EXCEPT ![t] = "idle"]
    /\ runs' = IF op[t].kind \in {"try_pop", "wait_and_pop"} /\ ret[t].ok
               THEN Invoke(runs, ret[t].val)
               ELSE runs
    /\ ret' = [ret EXCEPT ![t] = NoRet]
    /\ op' = [op EXCEPT ![t] = NoOp]
    /\ UNCHANGED <<node, live, m_head, m_tail, m_head_mutex, m_tail_mutex,
                   loc, npush, pushed, popped>>
    /\ UNCHANGED rvars

QNext ==
    \E t \in Threads :
        \/ Return(t)
        \/ PushBegin(t)
        \/ PushLock(t)
        \/ PushData(t)
        \/ PushNext(t)
        \/ PushTail(t)
        \/ PushUnlock(t)
        \/ PushNotify(t)
        \/ \E f \in Forms : CallBegin(t, "try_pop", f)
        \/ \E f \in Forms : CallBegin(t, "wait_and_pop", f)
        \/ CallBegin(t, "empty", "none")
        \/ LockHead(t)
        \/ GetTailLock(t)
        \/ GetTailRead(t)
        \/ EmptyReturn(t)
        \/ TryPopEmpty(t)
        \/ SeenNonEmpty(t)
        \/ WaitBlock(t)
        \/ SpuriousWake(t)
        \/ PopHead(t)
        \/ PopReturn(t)

\* ------------------------------------------------- registry and handles

\* Producer threads: both submit tasks and plain callbacks (Spec); p1 owns
\* the mvCallbackWrapper handles and calls run / run_blocking on them
\* (SpecRef).  The consumer is the one host-loop thread.
RThreads == {"p1", "p2"}
Handles == {"h1", "h2"}

\* PyObject* values: the null pointer, a callback f, a user data object u and
\* an app data object a.
Null == "null"
Objs == {"f", "u", "a"}

Reqs == 1..(MaxReq + MaxRun)

\* Frame numbers a callback is scheduled at.
Frames == 1..MaxFrame

\* A runnable unit: the request it was made by and the PyObject pointers its
\* closure captured (all null for a task or a plain callback closure).
Unit(id, cb, ud, ad) == [id |-> id, cb |-> cb, ud |-> ud, ad |-> ad]
NoUnit == Unit(0, Null, Null, Null)

\* Py_XINCREF / Py_XDECREF: no effect on a null pointer.
XIncref(r, o) == IF o = Null THEN r ELSE [r EXCEPT ![o] = @ + 1]
XDecref(r, o) == IF o = Null THEN r ELSE [r EXCEPT ![o] = @ - 1]

\* mvQueue::push and mvQueue::try_pop as the registry uses them: one push
\* appends at the tail, one successful pop removes the head (SpecQueue checks
\* the queue itself statement by statement).
QPush(q, u) == Append(q, u)
QFront(q) == Head(q)

\* Slip: a pop hands out the head unit but leaves it in the channel.
QPopped_Keeps(q) == q

QPopped(q) == Tail(q)

\* The state after construction: an empty mvQueue (mvQueue() : m_head(new
\* node), m_tail(m_head.get())), the registry's member initialisers, no handle
\* constructed yet, one outside reference to every PyObject.
Init ==
    /\ node = [n \in NodeIds |-> EmptyNode]
    /\ live = {1}
    /\ m_head = 1
    /\ m_tail = 1
    /\ m_head_mutex = NoThread
    /\ m_tail_mutex = NoThread
    /\ pc = [t \in Threads |-> "idle"]
    /\ op = [t \in Threads |-> NoOp]
    /\ loc = [t \in Threads |-> NoLoc]
    /\ ret = [t \in Threads |-> NoRet]
    /\ npush = 0
    /\ pushed = <<>>
    /\ popped = <<>>
    /\ runs = [v \in Values |-> 0]
    /\ started = FALSE
    /\ tasks = <<>>
    /\ calls = <<>>
    /\ callCount = 0
    /\ rpc = [t \in RThreads |-> "idle"]
    /\ runit = [t \in RThreads |-> NoUnit]
    /\ dpc = "idle"
    /\ hstate = [h \in Handles |-> "none"]
    /\ hcb = [h \in Handles |-> Null]
    /\ hud = [h \in Handles |-> Null]
    /\ rc = [o \in Objs |-> 1]
    /\ ext = [o \in Objs |-> 1]
    /\ nreq = 0
    /\ execs = [i \in Reqs |-> 0]
    /\ chan = [i \in Reqs |-> "none"]
    /\ nacc = 0
    /\ nrej = 0
    /\ overwritten = [o \in Objs |-> 0]
    /\ dropped = [o \in Objs |-> 0]
    /\ dstart = <<>>
    /\ ddone = <<>>
    /\ wasReset = FALSE
    /\ highestFrame = 0
    /\ frameCallbacks = [n \in Frames |-> Null]
    /\ frameCallbacksUserData = [n \in Frames |-> Null]
    /\ frameSched = [n \in Frames |-> 0]
    /\ frameCalls = [n \in Frames |-> 0]
    /\ frameFired = [n \in Frames |-> 0]

\* GContext->started becomes true when the application starts.
Start ==
    /\ ~started
    /\ started' = TRUE
    /\ UNCHANGED <<tasks, calls, callCount, rpc, runit, dpc, hstate, hcb,
                   hud, rc, ext, nreq, execs, chan, nacc, nrej, overwritten,
                   dropped>>
    /\ UNCHANGED qvars
    /\ UNCHANGED dvars
    /\ UNCHANGED fvars

\* ---- mvSubmitTask

\* Slip: the started test is left out, the task is always queued.
TaskIsQueued_Always == TRUE

\* if (GContext->started)
TaskIsQueued == started

\* mvSubmitTask(f): tasks.push(std::move(task)) when started, task() on the
\* calling thread otherwise.
SubmitTask(t) ==
    /\ rpc[t] = "idle"
    /\ nreq < MaxReq
    /\ nreq' = nreq + 1
    /\ IF TaskIsQueued
       THEN /\ tasks' = QPush(tasks, Unit(nreq + 1, Null, Null, Null))
            /\ chan' = [chan EXCEPT ![nreq + 1] = "tasks"]
            /\ execs' = execs
       ELSE /\ tasks' = tasks
            /\ chan' = [chan EXCEPT ![nreq + 1] = "inline"]
            /\ execs' = [execs EXCEPT ![nreq + 1] = @ + 1]
    /\ UNCHANGED <<started, calls, callCount, rpc, runit, dpc, hstate, hcb,
                   hud, rc, ext, nacc, nrej, overwritten, dropped>>
    /\ UNCHANGED qvars
    /\ UNCHANGED dvars
    /\ UNCHANGED fvars

\* ---- mvSubmitCallback

\* Slip: the ceiling is one too high.
Refuses_Late(c) == c > maxNumberOfCalls + 1

\* Slip: the comparison is inverted.
Refuses_Inverted(c) == c < maxNumberOfCalls

\* if (callCount > maxNumberOfCalls) return {};
Refuses(c) == c > maxNumberOfCalls

\* callCount++
Incremented(c) == c + 1

\* A plain closure (no captured PyObject) enters mvSubmitCallback.
SubmitCallback(t) ==
    /\ rpc[t] = "idle"
    /\ nreq < MaxReq
    /\ nreq' = nreq + 1
    /\ runit' = [runit EXCEPT ![t] = Unit(nreq + 1, Null, Null, Null)]
    /\ rpc' = [rpc EXCEPT ![t] = "sc_check"]
    /\ UNCHANGED <<started, tasks, calls, callCount, dpc, hstate, hcb, hud,
                   rc, ext, execs, chan, nacc, nrej, overwritten, dropped>>
    /\ UNCHANGED qvars
    /\ UNCHANGED dvars
    /\ UNCHANGED fvars

\* The admission check finds callCount above the ceiling: return {}.  The
\* closure is destroyed unrun; it holds raw PyObject pointers, so destroying
\* it releases nothing.
SubmitRefused(t) ==
    /\ rpc[t] = "sc_check"
    /\ Refuses(callCount)
    /\ chan' = [chan EXCEPT ![runit[t].id] = "refused"]
    /\ nrej' = nrej + 1
    /\ dropped' = XIncref(XIncref(XIncref(dropped, runit[t].cb), runit[t].ud),
                          runit[t].ad)
    /\ runit' = [runit EXCEPT ![t] = NoUnit]
    /\ rpc' = [rpc EXCEPT ![t] = "idle"]
    /\ UNCHANGED <<started, tasks, calls, callCount, dpc, hstate, hcb, hud,
                   rc, ext, nreq, execs, nacc, overwritten>>
    /\ UNCHANGED qvars
    /\ UNCHANGED dvars
    /\ UNCHANGED fvars

\* The admission check passes.
SubmitAdmitted(t) ==
    /\ rpc[t] = "sc_check"
    /\ ~Refuses(callCount)
    /\ rpc' = [rpc EXCEPT ![t] = "sc_inc"]
    /\ UNCHANGED <<started, tasks, calls, callCount, runit, dpc, hstate, hcb,
                   hud, rc, ext, nreq, execs, chan, nacc, nrej, overwritten,
                   dropped>>
    /\ UNCHANGED qvars
    /\ UNCHANGED dvars
    /\ UNCHANGED fvars

\* GContext->callbackRegistry->callCount++
SubmitCount(t) ==
    /\ rpc[t] = "sc_inc"
    /\ callCount' = Incremented(callCount)
    /\ nacc' = nacc + 1
    /\ rpc' = [rpc EXCEPT ![t] = "sc_push"]
    /\ UNCHANGED <<started, tasks, calls, runit, dpc, hstate, hcb, hud, rc,
                   ext, nreq, execs, chan, nrej, overwritten, dropped>>
    /\ UNCHANGED qvars
    /\ UNCHANGED dvars
    /\ UNCHANGED fvars

\* GContext->callbackRegistry->calls.push(std::move(task)); return res;
SubmitPush(t) ==
    /\ rpc[t] = "sc_push"
    /\ calls' = QPush(calls, runit[t])
    /\ chan' = [chan EXCEPT ![runit[t].id] = "calls"]
    /\ runit' = [runit EXCEPT ![t] = NoUnit]
    /\ rpc' = [rpc EXCEPT ![t] = "idle"]
    /\ UNCHANGED <<started, tasks, callCount, dpc, hstate, hcb, hud, rc, ext,
                   nreq, execs, nacc, nrej, overwritten, dropped>>
    /\ UNCHANGED qvars
    /\ UNCHANGED dvars
    /\ UNCHANGED fvars

\* ---- mvCallbackWrapper

\* A handle object exists: it was constructed and not yet destroyed.  "moved"
\* marks a handle that was the source of the last move it took part in.
Constructed(h) == hstate[h] \in {"alive", "moved"}

\* Slip: a borrowing handle does not add its own references.
RcAfterConstruct_NoRetain(r, cb, ud, borrow) == r

\* mvCallbackWrapper(callback, userData, borrow): a borrowing handle adds its
\* own references, a taking handle uses the references the caller had.
RcAfterConstruct(r, cb, ud, borrow) ==
    IF borrow THEN XIncref(XIncref(r, cb), ud) ELSE r

Construct(t, h, cb, ud, borrow) ==
    /\ t = "p1"
    /\ rpc[t] = "idle"
    /\ hstate[h] = "none"
    \* the handles are named in the order of their construction
    /\ h = "h2" => hstate["h1"] # "none"
    \* the caller passes pointers to objects it holds a reference to
    /\ cb # Null => ext[cb] > 0
    /\ ud # Null => ext[ud] > 0
    /\ hstate' = [hstate EXCEPT ![h] = "alive"]
    /\ hcb' = [hcb EXCEPT ![h] = cb]
    /\ hud' = [hud EXCEPT ![h] = ud]
    /\ rc' = RcAfterConstruct(rc, cb, ud, borrow)
    /\ ext' = IF borrow THEN ext ELSE XDecref(XDecref(ext, cb), ud)
    /\ UNCHANGED <<started, tasks, calls, callCount, rpc, runit, dpc, nreq,
                   execs, chan, nacc, nrej, overwritten, dropped>>
    /\ UNCHANGED qvars
    /\ UNCHANGED dvars
    /\ UNCHANGED fvars

\* Slip: the move leaves the source's pointers in place.
MovedFrom_Kept(p) == p

\* What the moved-from handle holds after a move: f.callback = nullptr;
\* f.userData = nullptr
MovedFrom(p) == Null

\* template<typename F> mvCallbackWrapper(F&& f): the move constructor.
MoveConstruct(t, dst, src) ==
    /\ t = "p1"
    /\ rpc[t] = "idle"
    /\ hstate[dst] = "none"
    /\ Constructed(src)
    /\ hstate' = [hstate EXCEPT ![dst] = "alive", ![src] = "moved"]
    /\ hcb' = [hcb EXCEPT ![dst] = hcb[src], ![src] = MovedFrom(hcb[src])]
    /\ hud' = [hud EXCEPT ![dst] = hud[src], ![src] = MovedFrom(hud[src])]
    /\ UNCHANGED <<started, tasks, calls, callCount, rpc, runit, dpc, rc, ext,
                   nreq, execs, chan, nacc, nrej, overwritten, dropped>>
    /\ UNCHANGED qvars
    /\ UNCHANGED dvars
    /\ UNCHANGED fvars

\* operator=(mvCallbackWrapper&& other): the fields of *this are overwritten
\* (no Py_XDECREF of what they held), other is nulled.  The source is another
\* handle than the destination.
MoveAssign(t, dst, src) ==
    /\ t = "p1"
    /\ rpc[t] = "idle"
    /\ dst # src
    /\ Constructed(dst)
    /\ Constructed(src)
    /\ hstate' = [hstate EXCEPT ![dst] = "alive", ![src] = "moved"]
    /\ hcb' = [hcb EXCEPT ![dst] = hcb[src], ![src] = MovedFrom(hcb[src])]
    /\ hud' = [hud EXCEPT ![dst] = hud[src], ![src] = MovedFrom(hud[src])]
    /\ overwritten' = XIncref(XIncref(overwritten, hcb[dst]), hud[dst])
    /\ UNCHANGED <<started, tasks, calls, callCount, rpc, runit, dpc, rc, ext,
                   nreq, execs, chan, nacc, nrej, dropped>>
    /\ UNCHANGED qvars
    /\ UNCHANGED dvars
    /\ UNCHANGED fvars

\* ~mvCallbackWrapper(): Py_XDECREF(callback); Py_XDECREF(userData)
RcAfterDestroy(r, cb, ud) == XDecref(XDecref(r, cb), ud)

Destroy(t, h) ==
    /\ t = "p1"
    /\ rpc[t] = "idle"
    /\ Constructed(h)
    /\ hstate' = [hstate EXCEPT ![h] = "dead"]
    /\ rc' = RcAfterDestroy(rc, hcb[h], hud[h])
    /\ hcb' = [hcb EXCEPT ![h] = Null]
    /\ hud' = [hud EXCEPT ![h] = Null]
    /\ UNCHANGED <<started, tasks, calls, callCount, rpc, runit, dpc, ext,
                   nreq, execs, chan, nacc, nrej, overwritten, dropped>>
    /\ UNCHANGED qvars
    /\ UNCHANGED dvars
    /\ UNCHANGED fvars

\* Slip: the null test is left out.
HasCallback_Always(p) == TRUE

\* Slip: the null test is inverted.
HasCallback_Never(p) == p = Null

\* if (!callback) return;  -- the test both run() and run_blocking() start with
HasCallback(p) == p # Null

\* run(): Py_XINCREF(callback); Py_XINCREF(userData);
\* if (!decrementAppData) Py_XINCREF(appData)
RcAfterRun(r, cb, ud, ad, dec) ==
    IF dec THEN XIncref(XIncref(r, cb), ud)
    ELSE XIncref(XIncref(XIncref(r, cb), ud), ad)

\* run(sender, appData, decrementAppData): nothing when callback is null;
\* otherwise the references are bumped and the closure goes to
\* mvSubmitCallback.  With decrementAppData the caller hands its own appData
\* reference over to the closure.
Run(t, h, ad, dec) ==
    /\ t = "p1"
    /\ rpc[t] = "idle"
    /\ Constructed(h)
    /\ nreq < MaxRun
    /\ ad # Null => ext[ad] > 0
    /\ nreq' = nreq + 1
    /\ IF ~HasCallback(hcb[h])
       THEN UNCHANGED <<rc, ext, runit, rpc>>
       ELSE /\ rc' = RcAfterRun(rc, hcb[h], hud[h], ad, dec)
            /\ ext' = IF dec THEN XDecref(ext, ad) ELSE ext
            /\ runit' = [runit EXCEPT ![t] = Unit(nreq + 1, hcb[h], hud[h], ad)]
            /\ rpc' = [rpc EXCEPT ![t] = "sc_check"]
    /\ UNCHANGED <<started, tasks, calls, callCount, dpc, hstate, hcb, hud,
                   execs, chan, nacc, nrej, overwritten, dropped>>
    /\ UNCHANGED qvars
    /\ UNCHANGED dvars
    /\ UNCHANGED fvars

\* run_blocking(): nothing when callback is null; otherwise
\* mvRunCallback(callback, sender, appData, userData) on the calling thread.
RunBlocking(t, h) ==
    /\ t = "p1"
    /\ rpc[t] = "idle"
    /\ Constructed(h)
    /\ nreq < MaxRun
    /\ nreq' = nreq + 1
    /\ execs' = IF ~HasCallback(hcb[h]) THEN execs
                ELSE [execs EXCEPT ![nreq + 1] = @ + 1]
    /\ chan' = IF ~HasCallback(hcb[h]) THEN chan
               ELSE [chan EXCEPT ![nreq + 1] = "inline"]
    /\ UNCHANGED <<started, tasks, calls, callCount, rpc, runit, dpc, hstate,
                   hcb, hud, rc, ext, nacc, nrej, overwritten, dropped>>
    /\ UNCHANGED qvars
    /\ UNCHANGED dvars
    /\ UNCHANGED fvars

\* ---- the drain entry points (host loop)

\* The closure of run(): mvRunCallback(...); Py_XDECREF(callback);
\* Py_XDECREF(userData); Py_XDECREF(appData).  A task or plain closure holds
\* null pointers.
RcAfterClosure(r, u) == XDecref(XDecref(XDecref(r, u.cb), u.ud), u.ad)

\* run_tasks() / run_callbacks() is entered.
DrainBegin(which) ==
    /\ dpc = "idle"
    /\ dpc' = which
    /\ UNCHANGED <<started, tasks, calls, callCount, rpc, runit, hstate, hcb,
                   hud, rc, ext, nreq, execs, chan, nacc, nrej, overwritten,
                   dropped>>
    /\ UNCHANGED qvars
    /\ dstart' = IF which = "run_tasks"
                 THEN [k \in 1..Len(tasks) |-> tasks[k].id]
                 ELSE [k \in 1..Len(calls) |-> calls[k].id]
    /\ ddone' = <<>>
    /\ UNCHANGED wasReset
    /\ UNCHANGED fvars

\* run_tasks(): non-blocking pop-and-invoke of one task.
RunTasksStep ==
    /\ dpc = "run_tasks"
    /\ tasks # <<>>
    /\ tasks' = QPopped(tasks)
    /\ execs' = [execs EXCEPT ![QFront(tasks).id] = @ + 1]
    /\ rc' = RcAfterClosure(rc, QFront(tasks))
    /\ UNCHANGED <<started, calls, callCount, rpc, runit, dpc, hstate, hcb,
                   hud, ext, nreq, chan, nacc, nrej, overwritten, dropped>>
    /\ UNCHANGED qvars
    /\ ddone' = Append(ddone, QFront(tasks).id)
    /\ UNCHANGED <<dstart, wasReset>>
    /\ UNCHANGED fvars

\* run_tasks(): the pop finds tasks empty, return.
RunTasksEnd ==
    /\ dpc = "run_tasks"
    /\ tasks = <<>>
    /\ dpc' = "idle"
    /\ UNCHANGED <<started, tasks, calls, callCount, rpc, runit, hstate, hcb,
                   hud, rc, ext, nreq, execs, chan, nacc, nrej, overwritten,
                   dropped>>
    /\ UNCHANGED qvars
    /\ dstart' = <<>>
    /\ ddone' = <<>>
    /\ UNCHANGED wasReset
    /\ UNCHANGED fvars

\* run_callbacks(): non-blocking pop-and-invoke of one call.
RunCallbacksStep ==
    /\ dpc = "run_callbacks"
    /\ calls # <<>>
    /\ calls' = QPopped(calls)
    /\ execs' = [execs EXCEPT ![QFront(calls).id] = @ + 1]
    /\ rc' = RcAfterClosure(rc, QFront(calls))
    /\ UNCHANGED <<started, tasks, callCount, rpc, runit, dpc, hstate, hcb,
                   hud, ext, nreq, chan, nacc, nrej, overwritten, dropped>>
    /\ UNCHANGED qvars
    /\ ddone' = Append(ddone, QFront(calls).id)
    /\ UNCHANGED <<dstart, wasReset>>
    /\ UNCHANGED fvars

\* run_callbacks(): the pop finds calls empty, the drain loop ends.
RunCallbacksEmpty ==
    /\ dpc = "run_callbacks"
    /\ calls = <<>>
    /\ dpc' = "reset"
    /\ UNCHANGED <<started, tasks, calls, callCount, rpc, runit, hstate, hcb,
                   hud, rc, ext, nreq, execs, chan, nacc, nrej, overwritten,
                   dropped>>
    /\ UNCHANGED qvars
    /\ UNCHANGED dvars
    /\ UNCHANGED fvars

\* run_callbacks(): callCount = 0; return.
RunCallbacksReset ==
    /\ dpc = "reset"
    /\ callCount' = 0
    /\ nacc' = 0
    /\ nrej' = 0
    /\ dpc' = "idle"
    /\ UNCHANGED <<started, tasks, calls, rpc, runit, hstate, hcb, hud, rc,
                   ext, nreq, execs, chan, overwritten, dropped>>
    /\ UNCHANGED qvars
    /\ dstart' = <<>>
    /\ ddone' = <<>>
    /\ wasReset' = TRUE
    /\ UNCHANGED fvars

\* The statements of mvSubmitCallback after its entry.
SubmitSteps(t) ==
    \/ SubmitRefused(t)
    \/ SubmitAdmitted(t)
    \/ SubmitCount(t)
    \/ SubmitPush(t)

\* The registry: producers submitting tasks and plain callbacks, the host
\* loop draining both channels.
RNext ==
    \/ Start
    \/ DrainBegin("run_tasks")
    \/ DrainBegin("run_callbacks")
    \/ RunTasksStep
    \/ RunTasksEnd
    \/ RunCallbacksStep
    \/ RunCallbacksEmpty
    \/ RunCallbacksReset
    \/ \E t \in RThreads :
        \/ SubmitTask(t)
        \/ SubmitCallback(t)
        \/ SubmitSteps(t)

\* The handles: one thread constructing, moving, running and destroying
\* mvCallbackWrapper objects, the host loop draining calls.
HNext ==
    \/ DrainBegin("run_callbacks")
    \/ RunCallbacksStep
    \/ RunCallbacksEmpty
    \/ RunCallbacksReset
    \/ SubmitSteps("p1")
    \/ \E h \in Handles, cb \in {Null, "f"}, ud \in {Null, "u"}, b \in BOOLEAN :
          Construct("p1", h, cb, ud, b)
    \/ \E d, h \in Handles : MoveConstruct("p1", d, h)
    \/ \E d, h \in Handles : MoveAssign("p1", d, h)
    \/ \E h \in Handles : Destroy("p1", h)
    \/ \E h \in Handles, ad \in {Null, "a"}, dec \in BOOLEAN : Run("p1", h, ad, dec)
    \/ \E h \in Handles : RunBlocking("p1", h)

\* ---- frame callbacks

\* The sum of a per-frame counter over the frames 1..n.
RECURSIVE Total(_, _)
Total(c, n) == IF n = 0 THEN 0 ELSE c[n] + Total(c, n - 1)

\* The larger of two frame numbers.
Max(a, b) == IF a >= b THEN a ELSE b

\* A "run at frame n" request arrives: the callback / user data pair becomes
\* the entry of frame n, highestFrame is raised to n if it was lower.
SetFrameCallback(n, cb, ud) ==
    /\ Total(frameSched, MaxFrame) < MaxSched
    /\ frameCallbacks' = [frameCallbacks EXCEPT ![n] = cb]
    /\ frameCallbacksUserData' = [frameCallbacksUserData EXCEPT ![n] = ud]
    /\ highestFrame' = Max(highestFrame, n)
    /\ frameSched' = [frameSched EXCEPT ![n] = @ + 1]
    /\ UNCHANGED <<frameCalls, frameFired>>
    /\ UNCHANGED <<started, tasks, calls, callCount, rpc, runit, dpc, hstate,
                   hcb, hud, rc, ext, nreq, execs, chan, nacc, nrej,
                   overwritten, dropped>>
    /\ UNCHANGED qvars
    /\ UNCHANGED dvars

\* Slip: the entry is left in the table when it fires.
Erased_Kept(m, n) == m

\* The table without the entry of frame n.
Erased(m, n) == [m EXCEPT ![n] = Null]

\* frame_callback(n): if frame n has an entry, it is removed and invoked at
\* once on the calling thread, with no admission control; otherwise nothing.
FrameCallback(n) ==
    /\ Total(frameCalls, MaxFrame) < MaxFire
    /\ frameCalls' = [frameCalls EXCEPT ![n] = @ + 1]
    /\ IF frameCallbacks[n] # Null
       THEN /\ frameCallbacks' = Erased(frameCallbacks, n)
            /\ frameCallbacksUserData' = Erased(frameCallbacksUserData, n)
            /\ frameFired' = [frameFired EXCEPT ![n] = @ + 1]
       ELSE UNCHANGED <<frameCallbacks, frameCallbacksUserData, frameFired>>
    /\ UNCHANGED <<highestFrame, frameSched>>
    /\ UNCHANGED <<started, tasks, calls, callCount, rpc, runit, dpc, hstate,
                   hcb, hud, rc, ext, nreq, execs, chan, nacc, nrej,
                   overwritten, dropped>>
    /\ UNCHANGED qvars
    /\ UNCHANGED dvars

\* The frame table: requests to run at a frame, and the host loop calling
\* frame_callback.
FNext ==
    \/ \E n \in Frames, ud \in {Null, "u"} : SetFrameCallback(n, "f", ud)
    \/ \E n \in Frames : FrameCallback(n)

\* The queue alone, used by any threads.
SpecQueue == Init /\ [][QNext]_vars


\* The registry.
Spec == Init /\ [][RNext]_vars

\* The handles and their reference counts.  The handles are used while the
\* registry is in one of two states Spec reaches: the initial one, or the one
\* in which other producers have used up the admission budget (callCount is
\* maxNumberOfCalls + 1) and run_callbacks has popped their units but not yet
\* reset the counter.
InitRef ==
    /\ node = [n \in NodeIds |-> EmptyNode]
    /\ live = {1}
    /\ m_head = 1
    /\ m_tail = 1
    /\ m_head_mutex = NoThread
    /\ m_tail_mutex = NoThread
    /\ pc = [t \in Threads |-> "idle"]
    /\ op = [t \in Threads |-> NoOp]
    /\ loc = [t \in Threads |-> NoLoc]
    /\ ret = [t \in Threads |-> NoRet]
    /\ npush = 0
    /\ pushed = <<>>
    /\ popped = <<>>
    /\ runs = [v \in Values |-> 0]
    /\ started = FALSE
    /\ tasks = <<>>
    /\ calls = <<>>
    /\ callCount \in {0, maxNumberOfCalls + 1}
    /\ nacc = callCount
    /\ dpc = IF callCount = 0 THEN "idle" ELSE "run_callbacks"
    /\ rpc = [t \in RThreads |-> "idle"]
    /\ runit = [t \in RThreads |-> NoUnit]
    /\ hstate = [h \in Handles |-> "none"]
    /\ hcb = [h \in Handles |-> Null]
    /\ hud = [h \in Handles |-> Null]
    /\ rc = [o \in Objs |-> 1]
    /\ ext = [o \in Objs |-> 1]
    /\ nreq = 0
    /\ execs = [i \in Reqs |-> 0]
    /\ chan = [i \in Reqs |-> "none"]
    /\ nrej = 0
    /\ overwritten = [o \in Objs |-> 0]
    /\ dropped = [o \in Objs |-> 0]
    /\ dstart = <<>>
    /\ ddone = <<>>
    /\ wasReset = FALSE
    /\ highestFrame = 0
    /\ frameCallbacks = [n \in Frames |-> Null]
    /\ frameCallbacksUserData = [n \in Frames |-> Null]
    /\ frameSched = [n \in Frames |-> 0]
    /\ frameCalls = [n \in Frames |-> 0]
    /\ frameFired = [n \in Frames |-> 0]

SpecRef == InitRef /\ [][HNext]_vars

\* The frame callbacks, with the registry in either of the two states.
SpecFrame == InitRef /\ [][FNext]_vars

\* ------------------------------------------------------------------ helpers
IsPrefix(s, q) == Len(s) <= Len(q) /\ \A i \in 1..Len(s) : s[i] = q[i]
NoDuplicates(s) == \A i, j \in 1..Len(s) : s[i] = s[j] => i = j
Range(s) == {s[i] : i \in 1..Len(s)}

\* No operation of the queue is in progress: every thread is between calls or
\* blocked inside m_data_cond.wait.
Quiescent == \A t \in Threads : pc[t] \in {"idle", "cv_wait"}

\* ------------------------------------------------------------------ claims

\* C1 (FIFO): the values leave the queue (pop_head, from try_pop or
\* wait_and_pop of either overload, by any thread) in exactly the order in
\* which push stored them: at every moment the sequence of popped values is a
\* prefix of the sequence of pushed values.
C1_Fifo == IsPrefix(popped, pushed)

\* Two producers stored their values in the order opposite to the order of
\* their calls, and two pops have removed them.
C1_Witness == Len(popped) >= 2 /\ pushed[1] = 2 /\ popped[1] = 2

\* C2 (exactly once): no unit is returned by two pops, no unit is invoked
\* twice, only popped units are invoked, and once the queue has been drained
\* to empty with no call in progress every pushed unit has been invoked
\* exactly once.
C2_ExactlyOnce ==
    /\ NoDuplicates(popped)
    /\ Range(popped) \subseteq Range(pushed)
    /\ \A v \in Values : runs[v] <= 1 /\ (runs[v] = 1 => v \in Range(popped))
    /\ (Quiescent /\ m_head = m_tail) =>
          \A v \in Range(pushed) : runs[v] = 1

\* Every push allowed by the bound was made, popped and invoked, the queue
\* is empty again.
C2_Witness ==
    /\ Quiescent /\ m_head = m_tail
    /\ Len(pushed) >= 2
    /\ \A v \in Range(pushed) : runs[v] = 1

\* C7 (blocking pop wakes on push): no wake-up is lost.  Stated on finite
\* runs: whenever a thread is blocked in wait_and_pop and no other call is in
\* progress (so no notify_one is still to come), the queue is empty; a
\* blocked thread never sits beside a pushed value.
C7_NoLostWakeup ==
    (Quiescent /\ Waiters # {}) => m_head = m_tail

\* The parts of C7 that hold: a wait_and_pop that returns hands out a pushed
\* value, and no more wait_and_pop calls have returned than pushes were made.
C7_ReceivesPushed ==
    \A t \in Threads :
        (pc[t] = "done" /\ op[t].kind = "wait_and_pop") =>
            ret[t].ok /\ ret[t].val \in Range(pushed)

\* C8 (non-blocking pop): a try_pop that finds the queue empty returns the
\* null shared_ptr (try_pop()) or false (try_pop(T&)), leaves m_head, m_tail
\* and the nodes as they are and never waits on the condition variable; a
\* try_pop on a queue that is empty cannot return a value; a try_pop that
\* returns a value removes exactly the oldest element.
C8_TryPopStep(t) ==
    /\ (pc[t] = "cmp" /\ pc'[t] = "done" /\ op[t].kind = "try_pop") =>
          /\ ret'[t].ok = FALSE
          /\ ret'[t].val = Nil
          /\ ret'[t].kind = (IF op[t].form = "ptr" THEN "shared_ptr" ELSE "bool")
          /\ UNCHANGED <<m_head, m_tail, node, live, popped>>
    /\ (pc[t] = "cmp" /\ pc'[t] # "cmp" /\ op[t].kind = "try_pop"
          /\ m_head = m_tail) => pc'[t] = "done"
    /\ (pc[t] = "pop_head" /\ pc'[t] # "pop_head" /\ op[t].kind = "try_pop") =>
          /\ Len(popped) < Len(pushed)
          /\ popped' = Append(popped, pushed[Len(popped) + 1])
          /\ m_head' = node[m_head].next
          /\ m_head' # Nil
          /\ m_tail' = m_tail
    /\ (pc[t] = "ret" /\ pc'[t] = "done" /\ op[t].kind = "try_pop") =>
          /\ ret'[t].ok
          /\ ret'[t].val = popped[Len(popped)]
          /\ ret'[t].kind = (IF op[t].form = "ptr" THEN "shared_ptr" ELSE "bool")
    /\ (op[t].kind = "try_pop") => pc'[t] # "cv_wait"

C8_TryPop == [][\A t \in Threads : C8_TryPopStep(t)]_vars

\* One try_pop has just returned "no value" and another one has just returned
\* a value.
C8_Witness ==
    \E t, u \in Threads :
        /\ pc[t] = "done" /\ op[t].kind = "try_pop" /\ ~ret[t].ok
        /\ pc[u] = "done" /\ op[u].kind = "try_pop" /\ ret[u].ok

\* ---- registry claims (Spec)

NoSubmitInFlight == \A t \in RThreads : rpc[t] = "idle"

\* C3 (admission ceiling): with callCount 0, once maxNumberOfCalls + 1
\* submit_callback calls have completed with no reset in between, exactly
\* maxNumberOfCalls of them were accepted and exactly one was refused.
C3_AdmissionCeiling ==
    (NoSubmitInFlight /\ nacc + nrej = maxNumberOfCalls + 1) =>
        (nacc = maxNumberOfCalls /\ nrej = 1)

\* C4 (refusal leaves the state unchanged): a submit_callback whose admission
\* check runs while callCount > maxNumberOfCalls returns at once with the
\* empty result, and calls, tasks and callCount are as before; a refused unit
\* is in no channel, in no thread's hands, and is never run.
C4_RefusalStep(t) ==
    (rpc[t] = "sc_check" /\ rpc'[t] # "sc_check"
        /\ callCount > maxNumberOfCalls) =>
        /\ rpc'[t] = "idle"
        /\ chan'[runit[t].id] = "refused"
        /\ calls' = calls
        /\ tasks' = tasks
        /\ callCount' = callCount
        /\ execs' = execs

C4_NeverRun ==
    \A i \in Reqs :
        chan[i] = "refused" =>
            /\ execs[i] = 0
            /\ \A k \in 1..Len(calls) : calls[k].id # i
            /\ \A t \in RThreads : runit[t].id # i

C4_Refusal ==
    /\ [][\A t \in RThreads : C4_RefusalStep(t)]_vars
    /\ []C4_NeverRun

\* A submission was refused while accepted units wait in calls.
C4_Witness == calls # <<>> /\ \E i \in Reqs : chan[i] = "refused"

\* C5 (drain resets admission): run_callbacks leaves its drain loop only on
\* an empty calls channel and then sets callCount to 0; and a submission is
\* refused only when at least maxNumberOfCalls submissions were counted since
\* the last reset, so that the first maxNumberOfCalls submissions counted
\* after a run_callbacks are all accepted, whatever happened before it.
C5_Step ==
    /\ (dpc = "run_callbacks" /\ dpc' = "reset") => calls = <<>>
    /\ (dpc = "reset" /\ dpc' = "idle") => callCount' = 0
    /\ nrej' > nrej => nacc >= maxNumberOfCalls

C6_Step(i) ==
    (chan[i] = "none" /\ chan'[i] \in {"inline", "tasks"}) =>
        /\ calls' = calls
        /\ callCount' = callCount
        /\ IF started
           THEN /\ chan'[i] = "tasks"
                /\ tasks' = Append(tasks, Unit(i, Null, Null, Null))
                /\ execs' = execs
                /\ execs[i] = 0
           ELSE /\ chan'[i] = "inline"
                /\ tasks' = tasks
                /\ execs' = [execs EXCEPT ![i] = 1]

C6_PreStart == [][\A i \in Reqs : C6_Step(i)]_vars

\* One task was run inside submit_task before the start, another one was
\* queued after the start and has not run yet.
C6_Witness ==
    \E i, j \in Reqs :
        /\ chan[i] = "inline" /\ execs[i] = 1
        /\ chan[j] = "tasks" /\ execs[j] = 0
        /\ \E k \in 1..Len(tasks) : tasks[k].id = j

\* ---- handle claims (SpecRef)

\* Number of handle fields that point to o.
Holds(o) ==
    Cardinality({h \in Handles : hcb[h] = o})
        + Cardinality({h \in Handles : hud[h] = o})

\* Number of references to o a closure holds.
UnitRefs(u, o) ==
    (IF u.cb = o THEN 1 ELSE 0) + (IF u.ud = o THEN 1 ELSE 0)
        + (IF u.ad = o THEN 1 ELSE 0)

RECURSIVE QueueRefs(_, _)
QueueRefs(q, o) ==
    IF q = <<>> THEN 0 ELSE UnitRefs(Head(q), o) + QueueRefs(Tail(q), o)

\* References to o held by closures that are queued or being submitted.
Pending(o) ==
    QueueRefs(calls, o) + UnitRefs(runit["p1"], o) + UnitRefs(runit["p2"], o)

C10_MoveStep ==
    \A d, s \in Handles :
        (MoveConstruct("p1", d, s) \/ MoveAssign("p1", d, s)) =>
            /\ hcb'[s] = Null /\ hud'[s] = Null
            /\ hcb'[d] = hcb[s] /\ hud'[d] = hud[s]
            /\ rc' = rc

C10_DestroyMoved ==
    \A h \in Handles : (hstate[h] = "moved" /\ hstate'[h] = "dead") => rc' = rc

C10_NoDoubleRelease ==
    \A o \in {"f", "u"} : rc[o] >= ext[o] + Holds(o) + Pending(o)

C11_ReplaceReleases ==
    \A o \in {"f", "u"} :
        dropped[o] = 0 => rc[o] = ext[o] + Holds(o) + Pending(o)

\* C12 (null callback is a no-op): run() and run_blocking() on a handle whose
\* callback is null push nothing, leave callCount and every reference count
\* as they are, start no submission and invoke nothing.
C12_NullStep ==
    \A h \in Handles :
        (hcb[h] = Null /\
            (RunBlocking("p1", h)
                \/ \E ad \in {Null, "a"}, dec \in BOOLEAN : Run("p1", h, ad, dec)))
        => UNCHANGED <<calls, tasks, callCount, rc, ext, execs, chan, rpc,
                       runit, hcb, hud, nacc, nrej>>

C12_NullNoOp == [][C12_NullStep]_vars

\* run() or run_blocking() was called on the only handle, which holds
\* userData but no callback: nothing was queued, refused or invoked.
C12_Witness ==
    /\ nreq = 1
    /\ rpc["p1"] = "idle"
    /\ chan[1] = "none" /\ execs[1] = 0
    /\ hstate["h1"] = "alive" /\ hstate["h2"] = "none"
    /\ hcb["h1"] = Null /\ hud["h1"] = "u"
    /\ rc["a"] = 1 /\ ext["a"] = 1

\* C13 (run_blocking bypasses the queue): run_blocking() on a handle with a
\* callback invokes it exactly once inside the call and leaves calls, tasks
\* and callCount as they are, whatever callCount is; no submission is
\* started and nothing is refused.
C13_BlockingStep ==
    \A h \in Handles :
        (hcb[h] # Null /\ RunBlocking("p1", h)) =>
            /\ execs' = [execs EXCEPT ![nreq + 1] = 1]
            /\ execs[nreq + 1] = 0
            /\ UNCHANGED <<calls, tasks, callCount, rpc, runit, nacc, nrej>>

C13_Bypass == [][C13_BlockingStep]_vars

\* run_blocking() invoked the callback while callCount was above the
\* ceiling.
C13_Witness ==
    /\ callCount > maxNumberOfCalls
    /\ \E i \in Reqs : chan[i] = "inline" /\ execs[i] = 1
    /\ calls = <<>>
    /\ nrej = 0

\* C15 (references of a refused run()): every reference run() takes on
\* callback, userData and appData, and the appData reference the caller hands
\* over, is released once, also when mvSubmitCallback refuses the closure:
\* (overwriting assignments aside) every count is the outside references plus
\* one per handle field and pending closure holding the object.
C15_RefusedReleases ==
    \A o \in Objs :
        overwritten[o] = 0 => rc[o] = ext[o] + Holds(o) + Pending(o)

\* ---- queue claims on the locks and the node chain (SpecQueue)

\* The thread is at the acquisition of m_head_mutex / m_tail_mutex.
WaitsHead(t) == pc[t] \in {"lock_head", "cv_relock"}
WaitsTail(t) == pc[t] \in {"push_lock", "gt_lock"}

\* The thread cannot take its next step: the mutex it wants is owned.
Blocked(t) ==
    \/ WaitsHead(t) /\ m_head_mutex # NoThread
    \/ WaitsTail(t) /\ m_tail_mutex # NoThread

\* C18 (deadlock freedom of the queue): push holds the tail lock only; every
\* other operation holds the head lock whenever it holds the tail lock (head
\* before tail); the owner of the tail lock never waits for a lock, so no
\* cycle of waiting threads exists; a thread waiting in wait_and_pop owns no
\* lock, so it blocks no producer; an owned lock is owned by a thread inside
\* the operation that took it; and whenever some thread is inside an
\* operation and not in the condition wait, some thread can take a step.
C18_NoLockCycle ==
    /\ \A t \in Threads :
        /\ op[t].kind = "push" => m_head_mutex # t
        /\ (m_tail_mutex = t /\ op[t].kind \in HeadOps) => m_head_mutex = t
        /\ m_tail_mutex = t =>
              pc[t] \in {"push_data", "push_next", "push_tail", "push_unlock",
                         "gt_read"}
        /\ m_head_mutex = t =>
              pc[t] \in {"gt_lock", "gt_read", "cmp", "pop_head", "ret"}
        /\ pc[t] = "cv_wait" => (m_head_mutex # t /\ m_tail_mutex # t)
    /\ ~ \E t, u \in Threads :
          /\ m_tail_mutex = t /\ WaitsHead(t)
          /\ m_head_mutex = u /\ WaitsTail(u)
    /\ (\E t \in Threads : pc[t] \notin {"idle", "cv_wait"}) =>
          \E t \in Threads : pc[t] \notin {"idle", "cv_wait"} /\ ~Blocked(t)

\* One consumer waits in wait_and_pop, a producer is inside push with the
\* tail lock, and another consumer holds the head lock and waits for the tail
\* lock.
C18_Witness ==
    \E w, p, c \in Threads :
        /\ pc[w] = "cv_wait"
        /\ pc[p] = "push_data" /\ m_tail_mutex = p
        /\ pc[c] = "gt_lock" /\ m_head_mutex = c

\* The nodes reached from n by following next, at most k of them.
RECURSIVE ChainFrom(_, _)
ChainFrom(n, k) ==
    IF n = Nil \/ k = 0 THEN <<>>
    ELSE <<n>> \o ChainFrom(node[n].next, k - 1)

Chain == ChainFrom(m_head, Cardinality(NodeIds) + 1)

\* The chain from m_head ends in one dummy node, which m_tail points to and
\* which has no data and no next; every node before it holds data.
ChainEndsInDummy ==
    /\ Chain # <<>>
    /\ NoDuplicates(Chain)
    /\ Range(Chain) \subseteq live
    /\ Chain[Len(Chain)] = m_tail
    /\ node[m_tail].data = Nil
    /\ node[m_tail].next = Nil
    /\ \A i \in 1..(Len(Chain) - 1) : node[Chain[i]].data # Nil

\* empty() and try_pop report by comparing m_head with the tail they read
\* under both locks: the tail read is m_tail, a "not empty" report is true of
\* the queue when it is made, and an "empty" report is true of the queue as
\* it was when the tail was read (the head has not moved since).
ReportsEmptyIffHeadIsTail ==
    \A t \in Threads :
        /\ pc[t] = "cmp" =>
              /\ m_head # loc[t].tail => m_head # m_tail
              /\ m_head = loc[t].tail =>
                    (m_tail = loc[t].tail \/ pushed # <<>>)
              /\ loc[t].tail \in Range(Chain)
        /\ (pc[t] = "done" /\ op[t].kind = "empty" /\ ~ret[t].ok) =>
              pushed # <<>>

\* C19 as stated (structural invariant in every reachable state).
C19_StructAlways == ChainEndsInDummy /\ ReportsEmptyIffHeadIsTail

\* No push is between storing the value in the dummy and moving m_tail.
NoPushInTailSection ==
    \A t \in Threads : pc[t] \notin {"push_next", "push_tail"}

\* C19 (amended): whenever no push is inside its tail-locked section between
\* storing the value and moving m_tail, the chain from m_head ends in exactly
\* one dummy node, m_tail points to it, it has no data and no next, and every
\* other node of the chain holds data; in every state m_tail is on the chain
\* from m_head and every node before it holds data; and the queue reports
\* empty if and only if m_head equals the tail read under the locks.
C19_Struct ==
    /\ NoPushInTailSection => ChainEndsInDummy
    /\ m_tail \in Range(Chain)
    /\ \A i \in 1..Len(Chain) :
          (\E j \in (i + 1)..Len(Chain) : Chain[j] = m_tail) =>
              node[Chain[i]].data # Nil
    /\ ReportsEmptyIffHeadIsTail

\* Two values are in the queue behind each other, no push is in progress,
\* and an empty() call has reported "not empty".
C19_Witness ==
    /\ NoPushInTailSection
    /\ Len(Chain) = 3
    /\ \E t \in Threads : pc[t] = "done" /\ op[t].kind = "empty" /\ ~ret[t].ok

\* ---- frame callbacks (SpecFrame) and drains (Spec)

\* C14 (frame callback fire-once): a frame_callback(n) call that finds an
\* entry for frame n removes it from frameCallbacks and
\* frameCallbacksUserData and invokes it once; one that finds none changes
\* nothing; no call touches another frame's entry, the channels or callCount;
\* highestFrame never decreases and is at least every scheduled frame; and a
\* frame's callback was never invoked more often than it was scheduled.
C14_Step ==
    \A n \in Frames :
        frameCalls'[n] > frameCalls[n] =>
            /\ frameCallbacks' = [frameCallbacks EXCEPT ![n] = Null]
            /\ frameCallbacksUserData' =
                  [frameCallbacksUserData EXCEPT ![n] = Null]
            /\ frameFired' =
                  [frameFired EXCEPT
                      ![n] = IF frameCallbacks[n] # Null THEN @ + 1 ELSE @]
            /\ frameCallbacks[n] = Null => frameCallbacksUserData[n] = Null
            /\ UNCHANGED <<calls, tasks, callCount, highestFrame>>

C14_Inv ==
    \A n \in Frames :
        /\ frameFired[n] <= frameSched[n]
        /\ frameCallbacks[n] # Null => frameFired[n] < frameSched[n]
        /\ frameSched[n] > 0 => highestFrame >= n

C14_FireOnce ==
    /\ [][C14_Step /\ highestFrame' >= highestFrame]_vars
    /\ []C14_Inv

\* A callback was scheduled at frame 2 and then one at frame 1 (highestFrame
\* stayed 2); frame_callback(1) was called twice and the callback was invoked
\* once, while callCount was above the ceiling.
C14_Witness ==
    /\ frameSched[1] = 1 /\ frameCalls[1] = 2 /\ frameFired[1] = 1
    /\ frameCallbacks[1] = Null /\ frameCallbacksUserData[1] = Null
    /\ frameCallbacks[2] # Null
    /\ highestFrame = 2
    /\ callCount > maxNumberOfCalls

\* A drain call is in progress.
Draining == dpc \in {"run_tasks", "run_callbacks", "reset"}

C16_EndStep ==
    /\ (dpc = "run_tasks" /\ dpc' = "idle") =>
          (tasks = <<>> /\ IsPrefix(dstart, ddone))
    /\ (dpc = "run_callbacks" /\ dpc' = "reset") =>
          (calls = <<>> /\ IsPrefix(dstart, ddone))

C16_Running ==
    /\ IsPrefix(ddone, dstart) \/ IsPrefix(dstart, ddone)
    /\ NoDuplicates(ddone)
    /\ \A k \in 1..Len(ddone) : execs[ddone[k]] = 1
    /\ dpc = "run_tasks" => ENABLED (RunTasksStep \/ RunTasksEnd)
    /\ dpc = "run_callbacks" => ENABLED (RunCallbacksStep \/ RunCallbacksEmpty)
    /\ dpc = "reset" => ENABLED RunCallbacksReset

C17_AdmissionBound ==
    /\ callCount <= maxNumberOfCalls + 1
    /\ (NoSubmitInFlight /\ ~wasReset) =>
          callCount = Cardinality({i \in Reqs : chan[i] = "calls"})

====
